---- MODULE Spec2Model ----
(***************************************************************************)
(* Content negotiation of django-rest-framework:                           *)
(*   rest_framework/utils/mediatypes.py  (_MediaType, media_type_matches)  *)
(*   rest_framework/negotiation.py       (DefaultContentNegotiation)       *)
(*                                                                         *)
(* A Python string is a sequence of one-character strings, so that         *)
(* splitting, stripping, lower-casing and header parsing are computed the  *)
(* way the code computes them.  A quality value is kept in tenths          *)
(* (float('0.5') is 5, float('1') is 10).                                  *)
(***************************************************************************)
EXTENDS Integers, Sequences, FiniteSets, TLC

VARIABLES op, request, renderers, format_suffix, parsers, types, result

vars == <<op, request, renderers, format_suffix, parsers, types, result>>

\* Python's None, distinct from every string of the model.
None == <<"<None>">>

\* ---------------------------------------------------------------------
\* String primitives of Python used by the code
\* ---------------------------------------------------------------------

\* str.lower() on one character
lower_char(c) ==
    CASE c = "A" -> "a"
      [] c = "J" -> "j"
      [] c = "T" -> "t"
      [] c = "H" -> "h"
      [] c = "Q" -> "q"
      [] c = "I" -> "i"
      [] OTHER -> c

\* str.lower()
lower(s) == [k \in 1..Len(s) |-> lower_char(s[k])]

\* str.find(c, start): the least position >= start holding c, 0 when there
\* is none (positions are 1-based here, Python's are 0-based with -1).
find_from(s, c, start) ==
    LET hits == {k \in start..Len(s) : s[k] = c}
    IN  IF hits = {} THEN 0 ELSE CHOOSE k \in hits : \A m \in hits : k <= m

find(s, c) == find_from(s, c, 1)

\* str.count(c, 0, end): occurrences of c strictly before position end
count_before(s, c, end) == Cardinality({k \in 1..(end - 1) : k <= Len(s) /\ s[k] = c})

\* str.strip()
strip(s) ==
    LET keep == {k \in 1..Len(s) : s[k] # " "}
    IN  IF keep = {} THEN <<>>
        ELSE LET lo == CHOOSE k \in keep : \A m \in keep : k <= m
                 hi == CHOOSE k \in keep : \A m \in keep : k >= m
             IN  SubSeq(s, lo, hi)

\* str.split(sep)
RECURSIVE split(_, _)
split(s, sep) ==
    LET i == find(s, sep)
    IN  IF i = 0 THEN <<s>>
        ELSE <<SubSeq(s, 1, i - 1)>> \o split(SubSeq(s, i + 1, Len(s)), sep)

\* str.partition(sep): <<head, sep, tail>>
partition(s, sep) ==
    LET i == find(s, sep)
    IN  IF i = 0 THEN <<s, <<>>, <<>>>>
        ELSE <<SubSeq(s, 1, i - 1), <<sep>>, SubSeq(s, i + 1, Len(s))>>

\* str.replace(old, new) for a two-character old and a one-character new
RECURSIVE replace2(_, _, _, _)
replace2(s, o1, o2, new) ==
    IF Len(s) < 2 THEN s
    ELSE IF s[1] = o1 /\ s[2] = o2
         THEN <<new>> \o replace2(SubSeq(s, 3, Len(s)), o1, o2, new)
         ELSE <<s[1]>> \o replace2(Tail(s), o1, o2, new)

Digits == <<"0", "1", "2", "3", "4", "5", "6", "7", "8", "9">>

is_digit(c) == \E d \in 1..10 : Digits[d] = c

digit_value(c) == (CHOOSE d \in 1..10 : Digits[d] = c) - 1

RECURSIVE int_value(_)
int_value(s) ==
    IF s = <<>> THEN 0
    ELSE 10 * int_value(SubSeq(s, 1, Len(s) - 1)) + digit_value(s[Len(s)])

all_digits(s) == s # <<>> /\ \A k \in 1..Len(s) : is_digit(s[k])

\* float(s) succeeds: an optional sign, digits, and at most one decimal
\* after the point (the strings of the model carry no more than one).
float_ok(s) ==
    LET t    == strip(s)
        body == IF t # <<>> /\ t[1] = "-" THEN Tail(t) ELSE t
        p    == partition(body, ".")
    IN  /\ all_digits(p[1])
        /\ \/ p[2] = <<>>
           \/ p[3] = <<>>
           \/ (Len(p[3]) = 1 /\ is_digit(p[3][1]))

\* float(s), in tenths
float(s) ==
    LET t    == strip(s)
        neg  == t # <<>> /\ t[1] = "-"
        body == IF neg THEN Tail(t) ELSE t
        p    == partition(body, ".")
        mag  == 10 * int_value(p[1]) + (IF p[3] = <<>> THEN 0 ELSE digit_value(p[3][1]))
    IN  IF neg THEN 0 - mag ELSE mag

\* ---------------------------------------------------------------------
\* django.http.multipartparser.parse_header, as called by _MediaType
\* ---------------------------------------------------------------------

\* _parse_header_params: the position of the ';' that ends the first
\* fragment of s, skipping every ';' inside a quoted value; 0 when none.
RECURSIVE fragment_end(_, _)
fragment_end(s, end) ==
    IF end > 1 /\ count_before(s, "\"", end) % 2 = 1
    THEN fragment_end(s, find_from(s, ";", end + 1))
    ELSE end

\* _parse_header_params(s) for s starting with ';': the stripped fragments
RECURSIVE _parse_header_params(_)
_parse_header_params(s) ==
    IF s = <<>> \/ s[1] # ";" THEN <<>>
    ELSE LET rest == Tail(s)
             e0   == fragment_end(rest, find(rest, ";"))
             end  == IF e0 = 0 THEN Len(rest) + 1 ELSE e0
         IN  <<strip(SubSeq(rest, 1, end - 1))>>
                 \o _parse_header_params(SubSeq(rest, end, Len(rest)))

\* the value of one parameter: stripped, and unquoted when it is quoted
param_value(p, i) ==
    LET value == strip(SubSeq(p, i + 1, Len(p)))
    IN  IF Len(value) >= 2 /\ value[1] = "\"" /\ value[Len(value)] = "\""
        THEN replace2(replace2(SubSeq(value, 2, Len(value) - 1), "\\", "\\", "\\"),
                      "\\", "\"", "\"")
        ELSE value

\* pdict[name] = value
dict_set(pdict, name, value) ==
    [n \in (DOMAIN pdict) \cup {name} |-> IF n = name THEN value ELSE pdict[n]]

\* the loop of parse_header over the parameter fragments
RECURSIVE parse_params(_, _)
parse_params(plist, pdict) ==
    IF plist = <<>> THEN pdict
    ELSE LET p == Head(plist)
             i == find(p, "=")
         IN  IF i > 0
             THEN parse_params(Tail(plist),
                      dict_set(pdict, lower(strip(SubSeq(p, 1, i - 1))), param_value(p, i)))
             ELSE parse_params(Tail(plist), pdict)

EmptyDict == [n \in {} |-> <<>>]

\* parse_header(line): <<key, pdict>>
parse_header(line) ==
    LET plist == _parse_header_params(<<";">> \o line)
    IN  <<lower(Head(plist)), parse_params(Tail(plist), EmptyDict)>>

\* ---------------------------------------------------------------------
\* rest_framework/utils/mediatypes.py
\* ---------------------------------------------------------------------

\* the exception float() raises on a non-numeric q
ValueError == [raised |-> "ValueError"]

Q == <<"q">>

\* dict.pop(key, default) : the dictionary left
dict_without(pdict, key) == [n \in (DOMAIN pdict) \ {key} |-> pdict[n]]

\* __init__ that reads an empty or absent string as '*/*'
_MediaType_empty_is_wildcard(media_type_str) ==
    LET orig      == IF media_type_str = None THEN <<>> ELSE media_type_str
        header    == parse_header(IF orig = <<>> THEN <<"*", "/", "*">> ELSE orig)
        full_type == header[1]
        not_given == Q \notin DOMAIN header[2]
        parts     == partition(full_type, "/")
    IN  IF ~not_given /\ ~float_ok(header[2][Q])
        THEN ValueError
        ELSE [orig              |-> orig,
              full_type         |-> full_type,
              params            |-> dict_without(header[2], Q),
              quality           |-> IF not_given THEN 10 ELSE float(header[2][Q]),
              quality_not_given |-> not_given,
              main_type         |-> parts[1],
              sub_type          |-> parts[3]]

\* _MediaType.__init__
_MediaType(media_type_str) ==
    LET orig      == IF media_type_str = None THEN <<>> ELSE media_type_str
        header    == parse_header(orig)
        full_type == header[1]
        not_given == Q \notin DOMAIN header[2]
        parts     == partition(full_type, "/")
    IN  IF ~not_given /\ ~float_ok(header[2][Q])
        THEN ValueError
        ELSE [orig              |-> orig,
              full_type         |-> full_type,
              params            |-> dict_without(header[2], Q),
              quality           |-> IF not_given THEN 10 ELSE float(header[2][Q]),
              quality_not_given |-> not_given,
              main_type         |-> parts[1],
              sub_type          |-> parts[3]]

Star == <<"*">>

\* match without the loop over self.params
match_ignoring_params(self, other) ==
    IF self.sub_type # Star /\ other.sub_type # Star /\ other.sub_type # self.sub_type
    THEN FALSE
    ELSE IF self.main_type # Star /\ other.main_type # Star /\ other.main_type # self.main_type
    THEN FALSE
    ELSE TRUE

\* _MediaType.match
match(self, other) ==
    IF \E key \in DOMAIN self.params :
          (IF key \in DOMAIN other.params THEN other.params[key] ELSE None) # self.params[key]
    THEN FALSE
    ELSE IF self.sub_type # Star /\ other.sub_type # Star /\ other.sub_type # self.sub_type
    THEN FALSE
    ELSE IF self.main_type # Star /\ other.main_type # Star /\ other.main_type # self.main_type
    THEN FALSE
    ELSE TRUE

\* _MediaType.precedence
precedence(self) ==
    <<self.main_type # Star,
      self.sub_type # Star,
      Cardinality(DOMAIN self.params) > 0,
      self.quality>>

\* Python's order on bool: False < True
bool_int(b) == IF b THEN 1 ELSE 0

\* Python's tuple comparison p > q on precedence tuples
precedence_gt(p, q) ==
    \/ bool_int(p[1]) > bool_int(q[1])
    \/ /\ p[1] = q[1]
       /\ \/ bool_int(p[2]) > bool_int(q[2])
          \/ /\ p[2] = q[2]
             /\ \/ bool_int(p[3]) > bool_int(q[3])
                \/ (p[3] = q[3] /\ p[4] > q[4])

\* one step of list.sort(key=..., reverse=True) on <<key, item>> pairs:
\* x goes before the first entry whose key is strictly less than its own,
\* so entries of equal key keep their order.
\* an insertion that puts x before the entries of equal key
RECURSIVE insert_before_equal(_, _)
insert_before_equal(sorted, x) ==
    IF sorted = <<>> THEN <<x>>
    ELSE IF ~precedence_gt(Head(sorted)[1], x[1])
         THEN <<x>> \o sorted
         ELSE <<Head(sorted)>> \o insert_before_equal(Tail(sorted), x)

RECURSIVE insert_by_precedence(_, _)
insert_by_precedence(sorted, x) ==
    IF sorted = <<>> THEN <<x>>
    ELSE IF precedence_gt(x[1], Head(sorted)[1])
         THEN <<x>> \o sorted
         ELSE <<Head(sorted)>> \o insert_by_precedence(Tail(sorted), x)

RECURSIVE sort_pairs(_, _)
sort_pairs(todo, sorted) ==
    IF todo = <<>> THEN sorted
    ELSE sort_pairs(Tail(todo), insert_by_precedence(sorted, Head(todo)))

\* accepts.sort(key=lambda item: item.precedence, reverse=True)
sort_by_precedence(items) ==
    LET pairs  == [k \in 1..Len(items) |-> <<precedence(items[k]), items[k]>>]
        sorted == sort_pairs(pairs, <<>>)
    IN  [k \in 1..Len(items) |-> sorted[k][2]]

\* _MediaType(media_type_str) raises instead of returning
raises(media_type_str) == _MediaType(media_type_str) = ValueError

\* media_type_matches(lhs, rhs), when both constructors return
media_type_matches(lhs, rhs) == match(_MediaType(lhs), _MediaType(rhs))

\* ---------------------------------------------------------------------
\* rest_framework/negotiation.py
\* ---------------------------------------------------------------------

\* Python truthiness of an optional string
truthy(s) == s # None /\ s # <<>>

\* what select_parser returns for "no parser": the None object
NoParser == [name |-> "None", media_type |-> None, format |-> None]

Return(fields) == [kind |-> "return"] @@ fields

Raise(exception) == [kind |-> "raise", exception |-> exception]

\* DefaultContentNegotiation.select_parser: the loop from parser k on
RECURSIVE select_parser_from(_, _, _)
select_parser_from(req, ps, k) ==
    IF k > Len(ps) THEN Return([parser |-> NoParser])
    ELSE IF raises(ps[k].media_type) \/ raises(req.content_type)
         THEN Raise("ValueError")
         ELSE IF media_type_matches(ps[k].media_type, req.content_type)
              THEN Return([parser |-> ps[k]])
              ELSE select_parser_from(req, ps, k + 1)

\* a select_parser that walks the parsers from the last to the first
select_parser_reversed(req, ps) ==
    select_parser_from(req, [k \in 1..Len(ps) |-> ps[Len(ps) + 1 - k]], 1)

select_parser(req, ps) == select_parser_from(req, ps, 1)

\* format = format_suffix or request.QUERY_PARAMS.get(format_query_param)
effective_format(req, suffix) == IF truthy(suffix) THEN suffix ELSE req.format

\* a filter_renderers that returns the empty list instead of raising
filter_renderers_no_404(rs, format) ==
    Return([renderers |-> SelectSeq(rs, LAMBDA r : r.format = format)])

\* filter_renderers
filter_renderers(rs, format) ==
    LET kept == SelectSeq(rs, LAMBDA r : r.format = format)
    IN  IF kept = <<>> THEN Raise("Http404") ELSE Return([renderers |-> kept])

WildcardHeader == <<"*", "/", "*">>

\* a get_accept_list whose default for a missing header is the empty string
get_accept_list_empty_default(req) ==
    LET header0 == IF req.HTTP_ACCEPT = None THEN <<>> ELSE req.HTTP_ACCEPT
        header  == IF req.accept = None THEN header0 ELSE req.accept
        tokens  == split(header, ",")
    IN  [k \in 1..Len(tokens) |-> strip(tokens[k])]

\* get_accept_list
get_accept_list(req) ==
    LET header0 == IF req.HTTP_ACCEPT = None THEN WildcardHeader ELSE req.HTTP_ACCEPT
        header  == IF req.accept = None THEN header0 ELSE req.accept
        tokens  == split(header, ",")
    IN  [k \in 1..Len(tokens) |-> strip(tokens[k])]

\* an inner loop without the break: the last matching entry is kept
last_match(renderer_media_type, accepts) ==
    LET hits == {k \in 1..Len(accepts) : match(renderer_media_type, accepts[k])}
    IN  IF hits = {} THEN 0 ELSE CHOOSE k \in hits : \A m \in hits : k >= m

\* the inner loop of select_renderer: the position in accepts of the
\* first entry the renderer's media type matches, 0 when there is none
first_match(renderer_media_type, accepts) ==
    LET hits == {k \in 1..Len(accepts) : match(renderer_media_type, accepts[k])}
    IN  IF hits = {} THEN 0 ELSE CHOOSE k \in hits : \A m \in hits : k <= m

\* the outer loop of select_renderer: matches, as (media type, renderer)
RECURSIVE find_matches(_, _)
find_matches(rs, accepts) ==
    IF rs = <<>> THEN <<>>
    ELSE LET k == first_match(_MediaType(Head(rs).media_type), accepts)
         IN  (IF k = 0 THEN <<>> ELSE << <<accepts[k], Head(rs)>> >>)
                 \o find_matches(Tail(rs), accepts)

\* matches.sort(key=lambda item: item[0].precedence, reverse=True)
sort_matches(matches) ==
    LET pairs  == [k \in 1..Len(matches) |-> <<precedence(matches[k][1]), matches[k]>>]
        sorted == sort_pairs(pairs, <<>>)
    IN  [k \in 1..Len(matches) |-> sorted[k][2]]

\* the comparison taken as >= instead of >
accepted_media_type_ge(renderer, media_type) ==
    IF ~precedence_gt(precedence(media_type), precedence(_MediaType(renderer.media_type)))
    THEN renderer.media_type
    ELSE media_type.orig

\* the media type string select_renderer returns for the chosen match
accepted_media_type(renderer, media_type) ==
    IF precedence_gt(precedence(_MediaType(renderer.media_type)), precedence(media_type))
    THEN renderer.media_type
    ELSE media_type.orig

\* a select_renderer whose NotAcceptable carries the list before filtering
select_renderer_reports_unfiltered(req, rs, suffix) ==
    LET format   == effective_format(req, suffix)
        filtered == IF truthy(format) THEN filter_renderers(rs, format)
                    ELSE Return([renderers |-> rs])
        tokens   == get_accept_list(req)
        parsed   == [k \in 1..Len(tokens) |-> _MediaType(tokens[k])]
    IN  IF filtered.kind = "raise" THEN filtered
        ELSE IF \E k \in 1..Len(tokens) : parsed[k] = ValueError THEN Raise("ValueError")
        ELSE IF \E k \in 1..Len(filtered.renderers) : raises(filtered.renderers[k].media_type)
             THEN Raise("ValueError")
        ELSE LET accepts == sort_by_precedence(parsed)
                 matches == find_matches(filtered.renderers, accepts)
             IN  IF matches # <<>>
                 THEN LET best == sort_matches(matches)[1]
                      IN  Return([renderer   |-> best[2],
                                  media_type |-> accepted_media_type(best[2], best[1])])
                 ELSE Raise("NotAcceptable") @@ [available_renderers |-> rs]

\* DefaultContentNegotiation.select_renderer
select_renderer(req, rs, suffix) ==
    LET format   == effective_format(req, suffix)
        filtered == IF truthy(format) THEN filter_renderers(rs, format)
                    ELSE Return([renderers |-> rs])
        tokens   == get_accept_list(req)
        parsed   == [k \in 1..Len(tokens) |-> _MediaType(tokens[k])]
    IN  IF filtered.kind = "raise" THEN filtered
        ELSE IF \E k \in 1..Len(tokens) : parsed[k] = ValueError THEN Raise("ValueError")
        ELSE IF \E k \in 1..Len(filtered.renderers) : raises(filtered.renderers[k].media_type)
             THEN Raise("ValueError")
        ELSE LET accepts == sort_by_precedence(parsed)
                 matches == find_matches(filtered.renderers, accepts)
             IN  IF matches # <<>>
                 THEN LET best == sort_matches(matches)[1]
                      IN  Return([renderer   |-> best[2],
                                  media_type |-> accepted_media_type(best[2], best[1])])
                 ELSE Raise("NotAcceptable") @@ [available_renderers |-> filtered.renderers]

\* ---------------------------------------------------------------------
\* Inputs.  Media types are abbreviated to one letter per token:
\* a/j is application/json, t/h is text/html, t/p is text/plain,
\* i is the indent parameter.
\* ---------------------------------------------------------------------

MaxAccepts == 2
MaxRenderers == 2
MaxParsers == 2
MaxTypes == 3

a_j         == <<"a", "/", "j">>
t_h         == <<"t", "/", "h">>
t_p         == <<"t", "/", "p">>
t_star      == <<"t", "/", "*">>
star_star   == <<"*", "/", "*">>
a_j_i4      == <<"a", "/", "j", ";", " ", "i", "=", "4">>
a_j_i4c     == <<"a", "/", "j", ";", "i", "=", "4">>
a_j_i8      == <<"a", "/", "j", ";", "i", "=", "8">>
a_j_i4_quot == <<"a", "/", "j", ";", "i", "=", "\"", "4", "\"">>
A_J_I4      == <<"A", "/", "J", ";", " ", "I", " ", "=", " ", "4">>
t_h_q05     == <<"t", "/", "h", ";", "q", "=", "0", ".", "5">>
t_h_q1      == <<"t", "/", "h", ";", " ", "q", "=", "1">>
t_h_q2      == <<"t", "/", "h", ";", "q", "=", "2">>
t_h_qneg    == <<"t", "/", "h", ";", "q", "=", "-", "1">>
t_h_qx      == <<"t", "/", "h", ";", "q", "=", "x">>
no_slash    == <<"t">>
empty       == <<>>

\* the strings given to _MediaType and media_type_matches
MediaTypeStrings ==
    {a_j, t_h, t_p, t_star, star_star, a_j_i4, a_j_i8, a_j_i4_quot, A_J_I4,
     t_h_q05, t_h_q1, t_h_q2, t_h_qneg, t_h_qx, no_slash, empty, None}

\* the strings sorted by precedence
SortStrings == {a_j, t_h, t_star, star_star, a_j_i4, t_h_q05, t_h_q2, empty}

\* the entries a client puts in an Accept header
AcceptTokens == {star_star, a_j, t_h, a_j_i4c, t_h_q05, t_h_qx}

AcceptOverrides == {None, t_h}

json == <<"j", "s", "o", "n">>
html == <<"h", "t", "m", "l">>

FormatSuffixes == {None, json}
FormatParams == {None, empty, html}

JSONRenderer       == [name |-> "JSONRenderer", media_type |-> a_j, format |-> json]
HTMLRenderer       == [name |-> "HTMLRenderer", media_type |-> t_h, format |-> html]
IndentJSONRenderer == [name |-> "IndentJSONRenderer", media_type |-> a_j_i4, format |-> json]
AnyRenderer        == [name |-> "AnyRenderer", media_type |-> star_star, format |-> html]

Renderers == {JSONRenderer, HTMLRenderer, IndentJSONRenderer, AnyRenderer}

JSONParser       == [name |-> "JSONParser", media_type |-> a_j, format |-> json]
HTMLParser       == [name |-> "HTMLParser", media_type |-> t_h, format |-> html]
IndentJSONParser == [name |-> "IndentJSONParser", media_type |-> a_j_i4, format |-> json]
AnyParser        == [name |-> "AnyParser", media_type |-> star_star, format |-> html]

Parsers == {JSONParser, HTMLParser, IndentJSONParser, AnyParser}

ContentTypes == {None, empty, a_j, a_j_i4, a_j_i8, A_J_I4, t_h, t_star, t_h_qx}

SeqUpTo(S, n) == UNION {[1..k -> S] : k \in 0..n}

\* a list of renderer or parser objects holds each object once
ListsUpTo(S, n) == {l \in SeqUpTo(S, n) : \A i, j \in 1..Len(l) : l[i] = l[j] => i = j}

\* the header a client sends for the given entries: 'e1, e2, ...'
RECURSIVE join(_)
join(tokens) ==
    IF Len(tokens) = 1 THEN tokens[1]
    ELSE tokens[1] \o <<",", " ">> \o join(Tail(tokens))

AcceptHeaders == {None, empty} \cup {join(ts) : ts \in SeqUpTo(AcceptTokens, MaxAccepts) \ {<<>>}}

\* ---------------------------------------------------------------------
\* The calls
\* ---------------------------------------------------------------------

NoRequest == [HTTP_ACCEPT |-> None, accept |-> None, format |-> None, content_type |-> None]

NoResult == [kind |-> "none"]

Init ==
    /\ op = "idle"
    /\ request = NoRequest
    /\ renderers = <<>>
    /\ format_suffix = None
    /\ parsers = <<>>
    /\ types = <<>>
    /\ result = NoResult

\* _MediaType(s)
Construct ==
    /\ op = "idle"
    /\ \E s \in MediaTypeStrings :
          /\ types' = <<s>>
          /\ result' = IF raises(s) THEN Raise("ValueError")
                       ELSE Return([value |-> _MediaType(s)])
    /\ op' = "_MediaType"
    /\ UNCHANGED <<request, renderers, format_suffix, parsers>>

\* media_type_matches(lhs, rhs)
Match ==
    /\ op = "idle"
    /\ \E lhs \in MediaTypeStrings, rhs \in MediaTypeStrings :
          /\ types' = <<lhs, rhs>>
          /\ result' = IF raises(lhs) \/ raises(rhs) THEN Raise("ValueError")
                       ELSE Return([value |-> media_type_matches(lhs, rhs)])
    /\ op' = "match"
    /\ UNCHANGED <<request, renderers, format_suffix, parsers>>

\* types = [_MediaType(item) for item in types];
\* types.sort(key=lambda x: x.precedence, reverse=True);
\* [item.orig for item in types]
Sort ==
    /\ op = "idle"
    /\ \E ts \in SeqUpTo(SortStrings, MaxTypes) :
          /\ types' = ts
          /\ result' = IF \E k \in 1..Len(ts) : raises(ts[k]) THEN Raise("ValueError")
                       ELSE LET sorted == sort_by_precedence([k \in 1..Len(ts) |-> _MediaType(ts[k])])
                            IN  Return([value |-> [k \in 1..Len(ts) |-> sorted[k].orig]])
    /\ op' = "sort"
    /\ UNCHANGED <<request, renderers, format_suffix, parsers>>

\* negotiator.select_parser(request, parsers)
SelectParser ==
    /\ op = "idle"
    /\ \E ct \in ContentTypes, ps \in ListsUpTo(Parsers, MaxParsers) :
          /\ request' = [NoRequest EXCEPT !.content_type = ct]
          /\ parsers' = ps
          /\ result' = select_parser(request', ps)
    /\ op' = "select_parser"
    /\ UNCHANGED <<renderers, format_suffix, types>>

\* negotiator.select_renderer(request, renderers, format_suffix)
SelectRenderer ==
    /\ op = "idle"
    /\ \E header \in AcceptHeaders, override \in AcceptOverrides,
          format \in FormatParams, suffix \in FormatSuffixes,
          rs \in ListsUpTo(Renderers, MaxRenderers) :
          /\ request' = [NoRequest EXCEPT !.HTTP_ACCEPT = header,
                                          !.accept = override,
                                          !.format = format]
          /\ renderers' = rs
          /\ format_suffix' = suffix
          /\ result' = select_renderer(request', rs, suffix)
    /\ op' = "select_renderer"
    /\ UNCHANGED <<parsers, types>>

\* the call is over; the negotiator keeps nothing between calls
Finish ==
    /\ op # "idle"
    /\ op' = "idle"
    /\ request' = NoRequest
    /\ renderers' = <<>>
    /\ format_suffix' = None
    /\ parsers' = <<>>
    /\ types' = <<>>
    /\ result' = NoResult

Next ==
    \/ Construct
    \/ Match
    \/ Sort
    \/ SelectParser
    \/ SelectRenderer
    \/ Finish

Spec == Init /\ [][Next]_vars

TypeOK ==
    /\ op \in {"idle", "_MediaType", "match", "sort", "select_parser", "select_renderer"}
    /\ result.kind \in {"none", "return", "raise"}

\* ---------------------------------------------------------------------
\* Properties
\* ---------------------------------------------------------------------

\* the parameters of a media type string as parse_header gives them,
\* q left out
params_without_q(s) ==
    LET pdict == parse_header(IF s = None THEN <<>> ELSE s)[2]
    IN  [n \in (DOMAIN pdict) \ {Q} |-> pdict[n]]

\* C6: a.match(b) is true exactly when every parameter of a other than q
\* is in b with the same value, the subtypes are equal or one of them is
\* '*', and the main types are equal or one of them is '*'; so
\* 'application/json' matches 'application/json; indent=4' and the
\* reverse does not.
C6_MatchRule ==
    (op = "match" /\ result.kind = "return") =>
        LET a  == _MediaType(types[1])
            b  == _MediaType(types[2])
            pa == params_without_q(types[1])
            pb == params_without_q(types[2])
        IN  /\ result.value =
                  (/\ \A key \in DOMAIN pa : key \in DOMAIN pb /\ pb[key] = pa[key]
                   /\ (a.sub_type = b.sub_type \/ a.sub_type = Star \/ b.sub_type = Star)
                   /\ (a.main_type = b.main_type \/ a.main_type = Star \/ b.main_type = Star))
            /\ (types = <<a_j, a_j_i4>> => result.value = TRUE)
            /\ (types = <<a_j_i4, a_j>> => result.value = FALSE)

\* 'application/json; indent=4' asked to match 'application/json' says
\* no, although the reverse says yes
C6_Witness ==
    /\ op = "match"
    /\ types = <<a_j_i4, a_j>>
    /\ result = Return([value |-> FALSE])
    /\ media_type_matches(a_j, a_j_i4)

EmptyOrStar == {<<>>, Star}

\* C9, as stated: an empty or absent media type string parses to main type
\* '*' and subtype '*'.
C9_EmptyParsesToWildcard ==
    (op = "_MediaType" /\ types[1] \in {None, empty}) =>
        /\ result.kind = "return"
        /\ result.value.main_type = Star
        /\ result.value.sub_type = Star

\* C9, amended: an empty or absent media type string parses to an empty
\* main type and an empty subtype, no parameters and quality 1.0; its
\* precedence is that of a fully concrete type, and in match it goes only
\* with media types whose main type and subtype are each empty or '*'.
C9_EmptyParsesToEmptyType ==
    /\ (op = "_MediaType" /\ types[1] \in {None, empty}) =>
           /\ result.kind = "return"
           /\ result.value.main_type = <<>>
           /\ result.value.sub_type = <<>>
           /\ DOMAIN result.value.params = {}
           /\ result.value.quality = 10
           /\ precedence(result.value) = <<TRUE, TRUE, FALSE, 10>>
    /\ (op = "match" /\ result.kind = "return" /\ types[1] \in {None, empty}) =>
           LET b == _MediaType(types[2])
           IN  result.value = (b.main_type \in EmptyOrStar /\ b.sub_type \in EmptyOrStar)
    /\ (op = "match" /\ result.kind = "return" /\ types[2] \in {None, empty}) =>
           LET a == _MediaType(types[1])
           IN  result.value = (/\ DOMAIN a.params = {}
                               /\ a.main_type \in EmptyOrStar
                               /\ a.sub_type \in EmptyOrStar)

\* the empty string does not match 'text/html', which '*/*' would
C9_Witness ==
    /\ op = "match"
    /\ types = <<empty, t_h>>
    /\ result = Return([value |-> FALSE])

\* C10: every parsed media type has a quality between 0.0 and 1.0, and
\* 1.0 when the string has no q parameter.
C10_QualityInRange ==
    (op = "_MediaType" /\ result.kind = "return") =>
        /\ result.value.quality >= 0
        /\ result.value.quality <= 10
        /\ (Q \notin DOMAIN parse_header(result.value.orig)[2] => result.value.quality = 10)

\* C8: sorting by precedence, descending, gives a permutation of the input
\* in which precedence never increases and equal precedences keep their
\* order: concrete main types before '*', then concrete subtypes before
\* '*', then parameterized before bare, then higher quality first.
C8_SortByPrecedence ==
    (op = "sort" /\ result.kind = "return") =>
        LET n   == Len(types)
            out == result.value
            mt  == [k \in 1..n |-> _MediaType(out[k])]
            m1(k) == mt[k].main_type # Star
            m2(k) == mt[k].sub_type # Star
            m3(k) == DOMAIN mt[k].params # {}
            same(i, j) == /\ m1(i) = m1(j) /\ m2(i) = m2(j) /\ m3(i) = m3(j)
                          /\ mt[i].quality = mt[j].quality
        IN  /\ Len(out) = n
            /\ \A i, j \in 1..n : i < j =>
                  /\ m1(j) => m1(i)
                  /\ (m1(i) = m1(j) /\ m2(j)) => m2(i)
                  /\ (m1(i) = m1(j) /\ m2(i) = m2(j) /\ m3(j)) => m3(i)
                  /\ (m1(i) = m1(j) /\ m2(i) = m2(j) /\ m3(i) = m3(j))
                        => mt[i].quality >= mt[j].quality
            /\ \E pi \in Permutations(1..n) :
                  /\ \A k \in 1..n : out[k] = types[pi[k]]
                  /\ \A i, j \in 1..n : (i < j /\ same(i, j)) => pi[i] < pi[j]

\* the second test of test_media_type_sorting: the parameterized type
\* comes first, the two bare types keep their order
C8_Witness ==
    /\ op = "sort"
    /\ types = <<t_h, a_j, a_j_i4>>
    /\ result = Return([value |-> <<a_j_i4, t_h, a_j>>])

\* C7: select_parser returns the first parser, in the given order, whose
\* media type matches the request's content type, and None when no parser
\* matches.
C7_FirstParserWins ==
    (op = "select_parser" /\ result.kind = "return") =>
        LET hits == {k \in 1..Len(parsers) :
                        media_type_matches(parsers[k].media_type, request.content_type)}
        IN  IF hits = {} THEN result.parser = NoParser
            ELSE \E k \in hits : /\ result.parser = parsers[k]
                                 /\ \A m \in hits : k <= m

\* the wildcard parser listed first wins over the exact parser after it
C7_Witness ==
    /\ op = "select_parser"
    /\ parsers = <<AnyParser, JSONParser>>
    /\ request.content_type = a_j
    /\ result = Return([parser |-> AnyParser])

\* the format in effect for the call: the suffix if given, else the
\* format query parameter
Format == IF truthy(format_suffix) THEN format_suffix ELSE request.format

\* the renderers the negotiation runs on
Filtered ==
    IF truthy(Format) THEN SelectSeq(renderers, LAMBDA r : r.format = Format) ELSE renderers

\* the client's accept entries, in the order of the header
Tokens == get_accept_list(request)

\* every media type string of the inputs, parsed
ParsedStrings ==
    MediaTypeStrings \cup AcceptTokens \cup AcceptOverrides \cup ContentTypes
        \cup {r.media_type : r \in Renderers \cup Parsers}

Parsed == [s \in ParsedStrings |-> _MediaType(s)]

Parses(T) == \A k \in 1..Len(T) : Parsed[T[k]] # ValueError

\* the positions of the entries of T that renderer r matches
Hits(T, r) == {k \in 1..Len(T) : match(Parsed[r.media_type], Parsed[T[k]])}

\* entry a of T comes before entry b in the precedence-sorted accept list:
\* higher precedence, or equal precedence and earlier in the header
Before(T, a, b) ==
    LET pa == precedence(Parsed[T[a]])
        pb == precedence(Parsed[T[b]])
    IN  precedence_gt(pa, pb) \/ (pa = pb /\ a <= b)

\* the position in T of the entry renderer r is paired with
Candidate(T, r) ==
    LET hits == Hits(T, r)
    IN  CHOOSE k \in hits : \A m \in hits : Before(T, k, m)

NoRendererMatches(T, rs) == \A i \in 1..Len(rs) : Hits(T, rs[i]) = {}

\* C4: with a format in effect that no renderer declares, select_renderer
\* fails with Http404 whatever the Accept header and the accept override
\* are; it returns nothing and does not raise NotAcceptable.
C4_UnknownFormatIsNotFound ==
    (/\ op = "select_renderer"
     /\ truthy(Format)
     /\ \A k \in 1..Len(renderers) : renderers[k].format # Format)
        => result = Raise("Http404")

\* the html renderer would satisfy the Accept header, the json suffix
\* still ends in Http404
C4_Witness ==
    /\ op = "select_renderer"
    /\ format_suffix = json
    /\ renderers = <<HTMLRenderer>>
    /\ request.HTTP_ACCEPT = t_h
    /\ result = Raise("Http404")

\* C3, as stated: when no renderer's media type matches any accept entry,
\* select_renderer raises NotAcceptable carrying the renderers list the
\* caller passed, whatever the format suffix and overrides are.
C3_NotAcceptableCarriesCallersList ==
    (op = "select_renderer" /\ Parses(Tokens) /\ NoRendererMatches(Tokens, renderers))
        => result = Raise("NotAcceptable") @@ [available_renderers |-> renderers]

\* C3, amended: when the q values parse, the format filter (if a format is
\* in effect) leaves at least one renderer and none of the renderers left
\* matches any accept entry, select_renderer raises NotAcceptable carrying
\* the renderers left by the format filter, which is the caller's list
\* only when no format is in effect.
C3_NotAcceptableCarriesFilteredList ==
    (/\ op = "select_renderer"
     /\ Parses(Tokens)
     /\ ~(truthy(Format) /\ Filtered = <<>>)
     /\ NoRendererMatches(Tokens, Filtered))
        => result = Raise("NotAcceptable") @@ [available_renderers |-> Filtered]

\* the json suffix leaves the json renderer alone, the client wants html
C3_Witness ==
    /\ op = "select_renderer"
    /\ format_suffix = json
    /\ renderers = <<JSONRenderer, HTMLRenderer>>
    /\ request.HTTP_ACCEPT = t_h
    /\ request.accept = None
    /\ result = Raise("NotAcceptable") @@ [available_renderers |-> <<JSONRenderer>>]

NoPreference ==
    /\ op = "select_renderer"
    /\ request.HTTP_ACCEPT = None
    /\ request.accept = None
    /\ request.format = None
    /\ format_suffix = None

\* C5, as stated: without Accept header and overrides, select_renderer on
\* a non-empty renderers list returns the first renderer of the list with
\* that renderer's own media type.
C5_FirstRendererWins ==
    (NoPreference /\ renderers # <<>>)
        => result = Return([renderer   |-> renderers[1],
                            media_type |-> renderers[1].media_type])

\* C5, amended: without Accept header and overrides, select_renderer
\* returns the first renderer of the list whose media type declares no
\* parameter other than q, with that renderer's own media type when its
\* precedence is strictly greater than that of '*/*' and with '*/*'
\* otherwise; it raises NotAcceptable when every renderer declares
\* parameters.
C5_FirstBareRendererWins ==
    NoPreference =>
        LET bare == {k \in 1..Len(renderers) :
                        DOMAIN params_without_q(renderers[k].media_type) = {}}
        IN  IF bare = {}
            THEN result = Raise("NotAcceptable") @@ [available_renderers |-> renderers]
            ELSE LET k == CHOOSE i \in bare : \A m \in bare : i <= m
                     r == renderers[k]
                 IN  result = Return([renderer   |-> r,
                                      media_type |->
                                          IF precedence_gt(precedence(Parsed[r.media_type]),
                                                           <<FALSE, FALSE, FALSE, 10>>)
                                          THEN r.media_type ELSE star_star])

\* the first renderer declares indent=4 and is passed over
C5_Witness ==
    /\ NoPreference
    /\ renderers = <<IndentJSONRenderer, HTMLRenderer>>
    /\ result = Return([renderer |-> HTMLRenderer, media_type |-> t_h])

\* C1: select_renderer builds one candidate per renderer that matches, the
\* renderer paired with the first entry of the precedence-sorted accept
\* list its media type matches, and returns the renderer of the candidate
\* whose entry has the greatest precedence, the earliest renderer of the
\* list among those that tie.
C1_BestCandidateWins ==
    (op = "select_renderer" /\ result.kind = "return") =>
        LET T        == Tokens
            F        == Filtered
            A        == [k \in 1..Len(T) |-> Parsed[T[k]]]
            matching == {i \in 1..Len(F) : Hits(T, F[i]) # {}}
            cand     == [i \in matching |-> Candidate(T, F[i])]
            nth(n)   == CHOOSE i \in matching : Cardinality({m \in matching : m < i}) = n - 1
        IN  /\ find_matches(F, sort_by_precedence(A))
                  = [n \in 1..Cardinality(matching) |-> <<A[cand[nth(n)]], F[nth(n)]>>]
            /\ \E i \in matching :
                  /\ result.renderer = F[i]
                  /\ \A m \in matching :
                        LET pi == precedence(A[cand[i]])
                            pm == precedence(A[cand[m]])
                        IN  /\ ~precedence_gt(pm, pi)
                            /\ pm = pi => i <= m

\* 'text/html, application/json' ties on precedence; the json renderer
\* is first in the list and wins
C1_Witness ==
    /\ op = "select_renderer"
    /\ request.HTTP_ACCEPT = join(<<t_h, a_j>>)
    /\ request.accept = None
    /\ Format = None
    /\ renderers = <<JSONRenderer, HTMLRenderer>>
    /\ result = Return([renderer |-> JSONRenderer, media_type |-> a_j])

\* C2: the media type string returned is the renderer's own media type
\* when its precedence is strictly greater than that of the matched accept
\* entry, and otherwise the client's string of that entry, as sent.
C2_ReturnedMediaType ==
    (op = "select_renderer" /\ result.kind = "return") =>
        LET T == Tokens
            r == result.renderer
            k == Candidate(T, r)
        IN  result.media_type =
                IF precedence_gt(precedence(Parsed[r.media_type]), precedence(Parsed[T[k]]))
                THEN r.media_type
                ELSE T[k]

\* the client's 'application/json;indent=4' has the precedence of the
\* renderer's 'application/json; indent=4' and is echoed as sent
C2_Witness ==
    /\ op = "select_renderer"
    /\ request.HTTP_ACCEPT = join(<<star_star, a_j_i4c>>)
    /\ request.accept = None
    /\ renderers = <<IndentJSONRenderer>>
    /\ result = Return([renderer |-> IndentJSONRenderer, media_type |-> a_j_i4c])

====
